---- MODULE Spec2Model ----
(***************************************************************************)
(* A state-machine model of the SanyoCCB bit-banged bus driver              *)
(* (SanyoCCB.cpp / SanyoCCB.h).  Every digitalWrite, digitalRead, pinMode   *)
(* and delayMicroseconds of the driver is one step; the four bus lines, the *)
(* caller's buffer and the locals of init/writeByte/readByte/ccb are the    *)
(* state.  History variables (events, wire, rxLog and the counters) record  *)
(* what a peripheral on the bus observes; they never influence the driver.  *)
(***************************************************************************)
EXTENDS Integers, Sequences, FiniteSets, TLC

\* ------------------------------------------------------------------ values
LOW == 0
HIGH == 1
CCB_DELAY == 100
CCB_SEND == 0
CCB_RECEIVE == 1

\* Largest payload length whose contents are enumerated exhaustively.
MaxLen == 2

\* Largest length the driver documents ("up to 127").
MaxDataLength == 127

Levels == {LOW, HIGH}

\* ------------------------------------------------------- integer helpers
RECURSIVE Pow2(_)
Pow2(n) == IF n <= 0 THEN 1 ELSE 2 * Pow2(n - 1)

\* Conversion to byte / uint8_t: the low 8 bits.
ToByte(x) == (x + 65536) % 256

\* Conversion to int8_t: two's complement wrap of the low 8 bits.
ToInt8(x) == ((x + 65536 + 128) % 256) - 128

\* Arduino bitRead(value, bit): ((value) >> (bit)) & 0x01
bitRead(value, bit) == (value \div Pow2(bit)) % 2

\* Arduino bitWrite(value, bit, b): b ? bitSet(value, bit) : bitClear(value, bit)
bitWrite(value, bit, b) ==
    IF b # 0
    THEN IF bitRead(value, bit) = 1 THEN value ELSE value + Pow2(bit)
    ELSE IF bitRead(value, bit) = 1 THEN value - Pow2(bit) ELSE value

\* C operators on non-negative ints.
ShiftRight(x, n) == x \div Pow2(n)
ShiftLeft(x, n) == x * Pow2(n)

RECURSIVE BitOr(_, _)
BitOr(x, y) ==
    IF x = 0 THEN y
    ELSE IF y = 0 THEN x
    ELSE (IF (x % 2 = 1) \/ (y % 2 = 1) THEN 1 ELSE 0)
         + 2 * BitOr(x \div 2, y \div 2)

\* An address sent without exchanging its nibbles.
SwappedAddress_unswapped(a) == ToByte(a)

\* The argument expression of writeByte in ccb(): (address >> 4) | (address << 4),
\* evaluated in int and converted to the byte parameter.
SwappedAddress(a) == ToByte(BitOr(ShiftRight(a, 4), ShiftLeft(a, 4)))

\* ------------------------------------------------------------ line events
PinModeEv(p, m) == [e |-> "pinMode", pin |-> p, v |-> IF m = "OUTPUT" THEN 1 ELSE 0]
WriteEv(p, l) == [e |-> "digitalWrite", pin |-> p, v |-> l]
ReadEv(p, l) == [e |-> "digitalRead", pin |-> p, v |-> l]
DelayEv == [e |-> "delayMicroseconds", pin |-> "-", v |-> CCB_DELAY]

\* ------------------------------------------------------------------ state
VARIABLES
    pc,          \* position of the single thread of control
    retpc,       \* where writeByte/readByte returns to
    level,       \* last level written to each pin (di: its pull-up)
    pinmode,     \* mode of each pin
    op,          \* public method being executed
    address,     \* ccb(): address
    data,        \* ccb(): the caller's buffer, index -> byte
    dataLength,  \* ccb(): int8_t dataLength
    mode,        \* ccb(): mode
    i,           \* ccb(): int8_t i
    bdata,       \* writeByte(): parameter data; readByte(): local data
    bi,          \* writeByte()/readByte(): int8_t i
    ret,         \* value returned by readByte() / diPinState()
    initialized, \* init() has completed at least once
    events,      \* line events of the running init/writeByte/readByte/diPinState
    wire,        \* bytes a peripheral has clocked in from OUT during this call
    shift,       \* the peripheral's partially clocked byte
    rxLog,       \* values returned by readByte() during this call, in time order
    cnt,         \* per-call counters of edges and buffer accesses
    data0        \* the buffer as it was when the call started

vars == <<pc, retpc, level, pinmode, op, address, data, dataLength, mode, i,
          bdata, bi, ret, initialized, events, wire, shift, rxLog, cnt, data0>>

frame == <<op, address, data, dataLength, mode, data0>>
byteframe == <<bdata, bi, retpc>>
lines == <<level, pinmode>>
observed == <<wire, shift, cnt>>

NoShift == [val |-> 0, n |-> 0, ce |-> {}]

NoCnt == [pulses |-> 0, hiPulses |-> 0, ceRises |-> 0, ceFalls |-> 0,
          sends |-> 0, recvs |-> 0,
          bufReads |-> <<>>, bufWrites |-> <<>>,
          iMin |-> 0, iMax |-> 0, overflow |-> FALSE]

\* ------------------------------------------------- the caller's arguments
\* Bytes used to fill short payloads.
PayloadBytes == {0, 170, 187}

\* Contents of long buffers and of memory the driver should not touch:
\* a different byte at every index below 256.
PatternByte(k) == (k * 7 + 3) % 256

\* Lengths a caller passes (as int): the short ones, the documented maximum
\* and three that do not fit int8_t (they become -128, -127 and -1).
CallerLengths ==
    (0 .. MaxLen) \cup {MaxDataLength, MaxDataLength + 1, MaxDataLength + 2, 255}

\* Addresses: every byte for empty transfers, a sample for the others.
SampleAddresses == {5, 130}
Addresses(n) == IF n = 0 THEN 0 .. 255 ELSE SampleAddresses

\* The caller's buffer holds one element more than the length it passes.
Capacity(n) == n + 1

WriteBuffers(n) ==
    IF n <= MaxLen
    THEN {[k \in 0 .. Capacity(n) - 1 |->
              IF k < n THEN f[k] ELSE PatternByte(k)] :
          f \in [0 .. n - 1 -> PayloadBytes]}
    ELSE {[k \in 0 .. Capacity(n) - 1 |-> PatternByte(k)]}

ReadBuffers(n) == {[k \in 0 .. Capacity(n) - 1 |-> PatternByte(k)]}

\* Levels the peripheral may present on IN when the driver samples it for
\* bit b of payload byte k of a read of length n: anything during the last
\* byte, a fixed pattern (different for each byte) before.  A loopback
\* peripheral replays, pulse for pulse, the OUT levels it saw at the rising
\* clock edges of the byte sent before (the driver samples bit b at its
\* pulse number 7 - b).
DeviceLevels(k, b, n) ==
    IF op = "loopback" THEN {(wire[1].val \div Pow2(7 - b)) % 2}
    ELSE IF k = n - 1 THEN Levels ELSE {bitRead(PatternByte(k + 1), b)}

\* --------------------------------------------------------------- Init
\* After the constructor: no I/O has been done, the pins are as the board
\* left them.
PowerOnLevels ==
    {[p \in {"do", "cl", "di", "ce"} |-> l] : l \in Levels}

Init ==
    /\ pc = "idle"
    /\ retpc = "-"
    /\ level \in PowerOnLevels
    /\ pinmode = [p \in {"do", "cl", "di", "ce"} |-> "UNSET"]
    /\ op = "-"
    /\ address = 0
    /\ data = <<>>
    /\ data0 = <<>>
    /\ dataLength = 0
    /\ mode = CCB_SEND
    /\ i = 0
    /\ bdata = 0
    /\ bi = 0
    /\ ret = 0
    /\ initialized = FALSE
    /\ events = <<>>
    /\ wire = <<>>
    /\ shift = NoShift
    /\ rxLog = <<>>
    /\ cnt = NoCnt

\* ------------------------------------------------ Arduino primitives
\* What a peripheral sees when pin p is driven to level l: a CLOCK rising
\* edge shifts the OUT level into its byte (first edge = bit 0), and ENABLE
\* edges are counted.
ObserveWrite(p, l) ==
    LET rising == p = "cl" /\ level["cl"] = LOW /\ l = HIGH
        sh == [val |-> shift.val + level["do"] * Pow2(shift.n),
               n |-> shift.n + 1,
               ce |-> shift.ce \cup {level["ce"]}]
    IN  /\ cnt' = [cnt EXCEPT
                     !.pulses = @ + (IF rising THEN 1 ELSE 0),
                     !.hiPulses = @ + (IF rising /\ level["ce"] = HIGH THEN 1 ELSE 0),
                     !.ceRises = @ + (IF p = "ce" /\ level["ce"] = LOW /\ l = HIGH
                                      THEN 1 ELSE 0),
                     !.ceFalls = @ + (IF p = "ce" /\ level["ce"] = HIGH /\ l = LOW
                                      THEN 1 ELSE 0)]
        /\ IF ~rising
           THEN UNCHANGED <<wire, shift>>
           ELSE IF sh.n = 8
                THEN /\ wire' = Append(wire, [val |-> sh.val, ce |-> sh.ce])
                     /\ shift' = NoShift
                ELSE /\ wire' = wire
                     /\ shift' = sh

\* digitalWrite(pin, val)
digitalWrite(p, val) ==
    LET l == IF val # 0 THEN HIGH ELSE LOW
    IN  /\ level' = [level EXCEPT ![p] = l]
        /\ events' = Append(events, WriteEv(p, l))
        /\ ObserveWrite(p, l)
        /\ UNCHANGED pinmode

\* pinMode(pin, mode)
pinMode(p, m) ==
    /\ pinmode' = [pinmode EXCEPT ![p] = m]
    /\ events' = Append(events, PinModeEv(p, m))
    /\ UNCHANGED <<level, observed>>

\* delayMicroseconds(CCB_DELAY)
delayMicroseconds ==
    /\ events' = Append(events, DelayEv)
    /\ UNCHANGED <<lines, observed>>

\* ------------------------------------------------------------- init()
init_call ==
    /\ pc = "idle"
    /\ pc' = "init_mode_do"
    /\ op' = "init"
    /\ UNCHANGED <<retpc, lines, address, data, data0, dataLength, mode, i,
                   bdata, bi, ret, initialized, events, wire, shift, rxLog, cnt>>

InitStep(from, to) ==
    /\ pc = from
    /\ pc' = to
    /\ UNCHANGED <<frame, byteframe, i, ret, rxLog>>

init_pinMode_do == InitStep("init_mode_do", "init_mode_cl") /\ pinMode("do", "OUTPUT") /\ UNCHANGED initialized
init_pinMode_cl == InitStep("init_mode_cl", "init_mode_ce") /\ pinMode("cl", "OUTPUT") /\ UNCHANGED initialized
init_pinMode_ce == InitStep("init_mode_ce", "init_mode_di") /\ pinMode("ce", "OUTPUT") /\ UNCHANGED initialized
init_pinMode_di == InitStep("init_mode_di", "init_pullup_di") /\ pinMode("di", "INPUT") /\ UNCHANGED initialized
init_pullup_di == InitStep("init_pullup_di", "init_do_low") /\ digitalWrite("di", HIGH) /\ UNCHANGED initialized
init_do_low == InitStep("init_do_low", "init_cl_low") /\ digitalWrite("do", LOW) /\ UNCHANGED initialized
\* An init that leaves CLOCK as it found it.
init_cl_low_missing ==
    /\ InitStep("init_cl_low", "init_ce_high")
    /\ UNCHANGED <<lines, events, observed, initialized>>

init_cl_low == InitStep("init_cl_low", "init_ce_high") /\ digitalWrite("cl", LOW) /\ UNCHANGED initialized
init_ce_high == InitStep("init_ce_high", "init_delay_high") /\ digitalWrite("ce", HIGH) /\ UNCHANGED initialized
\* An init that lowers ENABLE without holding it high.
init_delay_high_skipped ==
    /\ InitStep("init_delay_high", "init_ce_low")
    /\ UNCHANGED <<lines, events, observed, initialized>>

init_delay_high == InitStep("init_delay_high", "init_ce_low") /\ delayMicroseconds /\ UNCHANGED initialized
init_ce_low == InitStep("init_ce_low", "init_delay_low") /\ digitalWrite("ce", LOW) /\ UNCHANGED initialized
init_delay_low == InitStep("init_delay_low", "done") /\ delayMicroseconds /\ initialized' = TRUE

init ==
    \/ init_call
    \/ init_pinMode_do \/ init_pinMode_cl \/ init_pinMode_ce \/ init_pinMode_di
    \/ init_pullup_di \/ init_do_low \/ init_cl_low
    \/ init_ce_high \/ init_delay_high \/ init_ce_low \/ init_delay_low

\* -------------------------------------------------------- writeByte()
\* Entering writeByte(value): the parameter, the loop initialisation i = 0
\* (0 <= 7 holds, so the body is entered), and the return address.
writeByte_call(value, back) ==
    /\ bdata' = value
    /\ bi' = 0
    /\ retpc' = back
    /\ pc' = "wb_do"
    /\ events' = <<>>
    /\ cnt' = [cnt EXCEPT !.sends = @ + 1]

ByteStep(from, to) ==
    /\ pc = from
    /\ pc' = to
    /\ UNCHANGED <<frame, i, retpc, ret, initialized, rxLog>>

\* A writeByte that sends the most significant bit first.
writeByte_do_msb_first ==
    /\ ByteStep("wb_do", "wb_cl_high")
    /\ digitalWrite("do", bitRead(bdata, 7 - bi))
    /\ UNCHANGED <<bdata, bi>>

\* digitalWrite(_do_pin, bitRead(data, i));
writeByte_do ==
    /\ ByteStep("wb_do", "wb_cl_high")
    /\ digitalWrite("do", bitRead(bdata, bi))
    /\ UNCHANGED <<bdata, bi>>

\* digitalWrite(_cl_pin, HIGH);
writeByte_cl_high ==
    /\ ByteStep("wb_cl_high", "wb_delay_high")
    /\ digitalWrite("cl", HIGH)
    /\ UNCHANGED <<bdata, bi>>

writeByte_delay_high ==
    /\ ByteStep("wb_delay_high", "wb_cl_low")
    /\ delayMicroseconds
    /\ UNCHANGED <<bdata, bi>>

\* A writeByte that never lowers CLOCK again.
writeByte_cl_low_missing ==
    /\ ByteStep("wb_cl_low", "wb_delay_low")
    /\ UNCHANGED <<lines, events, observed, bdata, bi>>

\* digitalWrite(_cl_pin, LOW);
writeByte_cl_low ==
    /\ ByteStep("wb_cl_low", "wb_delay_low")
    /\ digitalWrite("cl", LOW)
    /\ UNCHANGED <<bdata, bi>>

\* A writeByte that does not hold CLOCK low before going on.
writeByte_delay_low_skipped ==
    /\ pc = "wb_delay_low"
    /\ bi' = ToInt8(bi + 1)
    /\ pc' = IF bi' <= 7 THEN "wb_do" ELSE "wb_ret"
    /\ UNCHANGED <<frame, i, retpc, ret, initialized, rxLog, bdata,
                   lines, events, observed>>

\* delayMicroseconds(CCB_DELAY); i++; i <= 7 ?
writeByte_delay_low ==
    /\ pc = "wb_delay_low"
    /\ delayMicroseconds
    /\ bi' = ToInt8(bi + 1)
    /\ pc' = IF bi' <= 7 THEN "wb_do" ELSE "wb_ret"
    /\ UNCHANGED <<frame, i, retpc, ret, initialized, rxLog, bdata>>

writeByte_return ==
    /\ pc = "wb_ret"
    /\ pc' = retpc
    /\ UNCHANGED <<frame, i, retpc, ret, initialized, rxLog, bdata, bi,
                   lines, events, observed>>

writeByte ==
    \/ writeByte_do \/ writeByte_cl_high \/ writeByte_delay_high
    \/ writeByte_cl_low \/ writeByte_delay_low \/ writeByte_return

\* --------------------------------------------------------- readByte()
\* Entering readByte(): data = 0, the loop initialisation i = 7 (7 >= 0
\* holds, so the body is entered), and the return address.
readByte_call(back) ==
    /\ bdata' = 0
    /\ bi' = 7
    /\ retpc' = back
    /\ pc' = "rb_cl_high"
    /\ events' = <<>>
    /\ cnt' = [cnt EXCEPT !.recvs = @ + 1]

\* digitalWrite(_cl_pin, HIGH);
readByte_cl_high ==
    /\ ByteStep("rb_cl_high", "rb_delay_high")
    /\ digitalWrite("cl", HIGH)
    /\ UNCHANGED <<bdata, bi>>

readByte_delay_high ==
    /\ ByteStep("rb_delay_high", "rb_sample")
    /\ delayMicroseconds
    /\ UNCHANGED <<bdata, bi>>

\* A readByte that fills the byte from bit 0 upwards.
readByte_sample_lsb_first ==
    /\ ByteStep("rb_sample", "rb_cl_low")
    /\ \E l \in DeviceLevels(i, bi, dataLength) :
          /\ bdata' = bitWrite(bdata, 7 - bi, l)
          /\ events' = Append(events, ReadEv("di", l))
    /\ UNCHANGED <<bi, lines, observed>>

\* bitWrite(data, i, digitalRead(_di_pin));
readByte_sample ==
    /\ ByteStep("rb_sample", "rb_cl_low")
    /\ \E l \in DeviceLevels(i, bi, dataLength) :
          /\ bdata' = bitWrite(bdata, bi, l)
          /\ events' = Append(events, ReadEv("di", l))
    /\ UNCHANGED <<bi, lines, observed>>

\* digitalWrite(_cl_pin, LOW);
readByte_cl_low ==
    /\ ByteStep("rb_cl_low", "rb_delay_low")
    /\ digitalWrite("cl", LOW)
    /\ UNCHANGED <<bdata, bi>>

\* delayMicroseconds(CCB_DELAY); i--; i >= 0 ?
readByte_delay_low ==
    /\ pc = "rb_delay_low"
    /\ delayMicroseconds
    /\ bi' = ToInt8(bi - 1)
    /\ pc' = IF bi' >= 0 THEN "rb_cl_high" ELSE "rb_ret"
    /\ UNCHANGED <<frame, i, retpc, ret, initialized, rxLog, bdata>>

\* return data;
readByte_return ==
    /\ pc = "rb_ret"
    /\ pc' = retpc
    /\ ret' = bdata
    /\ rxLog' = Append(rxLog, bdata)
    /\ UNCHANGED <<frame, i, retpc, initialized, bdata, bi,
                   lines, events, observed>>

readByte ==
    \/ readByte_cl_high \/ readByte_delay_high \/ readByte_sample
    \/ readByte_cl_low \/ readByte_delay_low \/ readByte_return

\* -------------------------------------------------------------- ccb()
\* Entering ccb(address, data, dataLength, mode).
ccb_call(a, buf, n, m) ==
    /\ pc = "idle"
    /\ pc' = "ccb_address"
    /\ address' = a
    /\ data' = buf
    /\ data0' = buf
    /\ dataLength' = n
    /\ mode' = m
    /\ UNCHANGED <<retpc, lines, i, bdata, bi, ret, initialized, events,
                   wire, shift, rxLog, cnt>>

CcbStep(from, to) ==
    /\ pc = from
    /\ pc' = to
    /\ UNCHANGED <<frame, byteframe, i, ret, initialized, rxLog>>

\* writeByte((address >> 4) | (address << 4));
ccb_address ==
    /\ pc = "ccb_address"
    /\ writeByte_call(SwappedAddress(address), "ccb_cl_low")
    /\ UNCHANGED <<frame, i, ret, initialized, rxLog, lines, wire, shift>>

\* digitalWrite(_cl_pin, LOW);
ccb_cl_low == CcbStep("ccb_cl_low", "ccb_ce_high") /\ digitalWrite("cl", LOW)

\* A ccb that fails to raise ENABLE for the data phase.
ccb_ce_high_stays_low == CcbStep("ccb_ce_high", "ccb_enter_delay") /\ digitalWrite("ce", LOW)

\* digitalWrite(_ce_pin, HIGH);
ccb_ce_high == CcbStep("ccb_ce_high", "ccb_enter_delay") /\ digitalWrite("ce", HIGH)

\* A ccb that starts the payload right after raising ENABLE.
ccb_enter_delay_skipped ==
    /\ CcbStep("ccb_enter_delay", "ccb_switch")
    /\ UNCHANGED <<lines, events, observed>>

ccb_enter_delay == CcbStep("ccb_enter_delay", "ccb_switch") /\ delayMicroseconds

\* A send loop whose counter is never decremented.
send_next_stuck(k) == k

\* A send loop that starts one element too far.
send_first_off_by_one(n) == n

\* A receive loop that compares the counter with the length as unsigned.
recv_cond_unsigned(k, n) == k < ToByte(n)

\* A receive loop that runs once too often.
recv_cond_inclusive(k, n) == k <= n

\* Loop control of the two payload loops:
\* for(i = dataLength - 1; i >= 0; i--)
send_first(n) == n - 1
send_cond(k) == k >= 0
send_next(k) == k - 1
\* for(i = 0; i < dataLength; i++)
recv_first(n) == 0
recv_cond(k, n) == k < n
recv_next(k) == k + 1

\* An assignment of the int value x to the int8_t counter i.
AssignI(x) ==
    /\ i' = ToInt8(x)
    /\ cnt' = [cnt EXCEPT
                 !.iMin = IF ToInt8(x) < @ THEN ToInt8(x) ELSE @,
                 !.iMax = IF ToInt8(x) > @ THEN ToInt8(x) ELSE @,
                 !.overflow = @ \/ (ToInt8(x) # x)]

\* switch(mode) and the initialisation of the loop it selects.
ccb_switch ==
    /\ pc = "ccb_switch"
    /\ IF mode = CCB_SEND
       THEN /\ AssignI(send_first(dataLength))
            /\ pc' = "send_test"
       ELSE IF mode = CCB_RECEIVE
       THEN /\ AssignI(recv_first(dataLength))
            /\ pc' = "recv_test"
       ELSE /\ UNCHANGED <<i, cnt>>
            /\ pc' = "ccb_ce_low"
    /\ UNCHANGED <<frame, byteframe, ret, initialized, rxLog, lines, events,
                   wire, shift>>

\* A send loop that takes the buffer front to back.
send_index_forward(k) == IF dataLength > 0 THEN dataLength - 1 - k ELSE k

\* Index of the buffer element sent when the counter is k.
send_index(k) == k

\* i >= 0 holds: writeByte(data[i]);
ccb_send_byte ==
    /\ pc = "send_test"
    /\ send_cond(i)
    /\ bdata' = data[send_index(i)]
    /\ bi' = 0
    /\ retpc' = "send_next"
    /\ pc' = "wb_do"
    /\ events' = <<>>
    /\ cnt' = [cnt EXCEPT !.sends = @ + 1, !.bufReads = Append(@, send_index(i))]
    /\ UNCHANGED <<frame, i, ret, initialized, rxLog, lines, wire, shift>>

\* i--
ccb_send_next ==
    /\ pc = "send_next"
    /\ AssignI(send_next(i))
    /\ pc' = "send_test"
    /\ UNCHANGED <<frame, byteframe, ret, initialized, rxLog, lines, events,
                   wire, shift>>

\* i >= 0 fails: leave the loop.
ccb_send_exit ==
    /\ pc = "send_test"
    /\ ~send_cond(i)
    /\ pc' = "send_do_low"
    /\ UNCHANGED <<frame, byteframe, i, ret, initialized, rxLog, lines,
                   events, observed>>

\* digitalWrite(_do_pin, LOW); break;
ccb_send_do_low == CcbStep("send_do_low", "ccb_ce_low") /\ digitalWrite("do", LOW)

\* i < dataLength holds: readByte() is called
ccb_recv_byte ==
    /\ pc = "recv_test"
    /\ recv_cond(i, dataLength)
    /\ readByte_call("recv_store")
    /\ UNCHANGED <<frame, i, ret, initialized, rxLog, lines, wire, shift>>

\* A receive loop that overwrites the element after the one it fills, as a
\* store wider than one byte would.
recv_store_wide ==
    /\ pc = "recv_store"
    /\ data' = [data EXCEPT ![i] = ret, ![i + 1] = 0]
    /\ i' = ToInt8(recv_next(i))
    /\ cnt' = [cnt EXCEPT
                 !.bufWrites = Append(@, i),
                 !.iMin = IF ToInt8(recv_next(i)) < @ THEN ToInt8(recv_next(i)) ELSE @,
                 !.iMax = IF ToInt8(recv_next(i)) > @ THEN ToInt8(recv_next(i)) ELSE @,
                 !.overflow = @ \/ (ToInt8(recv_next(i)) # recv_next(i))]
    /\ pc' = "recv_test"
    /\ UNCHANGED <<op, address, dataLength, mode, data0, byteframe, ret,
                   initialized, rxLog, lines, events, wire, shift>>

\* A receive loop that stores one element too far.
recv_index_shifted(k) == k + 1

\* Index of the buffer element that receives the byte just read.
recv_index(k) == k

\* data[i] = <value returned>; i++
ccb_recv_store ==
    /\ pc = "recv_store"
    /\ data' = [data EXCEPT ![recv_index(i)] = ret]
    /\ i' = ToInt8(recv_next(i))
    /\ cnt' = [cnt EXCEPT
                 !.bufWrites = Append(@, recv_index(i)),
                 !.iMin = IF ToInt8(recv_next(i)) < @ THEN ToInt8(recv_next(i)) ELSE @,
                 !.iMax = IF ToInt8(recv_next(i)) > @ THEN ToInt8(recv_next(i)) ELSE @,
                 !.overflow = @ \/ (ToInt8(recv_next(i)) # recv_next(i))]
    /\ pc' = "recv_test"
    /\ UNCHANGED <<op, address, dataLength, mode, data0, byteframe, ret,
                   initialized, rxLog, lines, events, wire, shift>>

\* i < dataLength fails: break;
ccb_recv_exit ==
    /\ pc = "recv_test"
    /\ ~recv_cond(i, dataLength)
    /\ pc' = "ccb_ce_low"
    /\ UNCHANGED <<frame, byteframe, i, ret, initialized, rxLog, lines,
                   events, observed>>

\* digitalWrite(_ce_pin, LOW);
ccb_ce_low == CcbStep("ccb_ce_low", "ccb_exit_delay") /\ digitalWrite("ce", LOW)

ccb_exit_delay == CcbStep("ccb_exit_delay", "done") /\ delayMicroseconds

ccb ==
    \/ ccb_address \/ ccb_cl_low \/ ccb_ce_high \/ ccb_enter_delay
    \/ ccb_switch
    \/ ccb_send_byte \/ ccb_send_next \/ ccb_send_exit \/ ccb_send_do_low
    \/ ccb_recv_byte \/ ccb_recv_store \/ ccb_recv_exit
    \/ ccb_ce_low \/ ccb_exit_delay

\* ------------------------------------------------------- public methods
\* write(address, data, dataLength): the caller's length is converted to the
\* int8_t parameter.
write ==
    \E n \in CallerLengths : \E a \in Addresses(n) : \E buf \in WriteBuffers(n) :
        /\ ccb_call(a, buf, ToInt8(n), CCB_SEND)
        /\ op' = "write"

\* read(address, data, dataLength)
read ==
    \E n \in CallerLengths : \E a \in Addresses(n) : \E buf \in ReadBuffers(n) :
        /\ ccb_call(a, buf, ToInt8(n), CCB_RECEIVE)
        /\ op' = "read"

\* A diPinState that raises CLOCK to fetch the level, as readByte does.
diPinState_clocked ==
    /\ pc = "idle"
    /\ pc' = "done"
    /\ op' = "diPinState"
    /\ digitalWrite("cl", HIGH)
    /\ \E l \in Levels : ret' = l
    /\ UNCHANGED <<retpc, address, data, data0, dataLength, mode, i,
                   bdata, bi, initialized, rxLog>>

\* diPinState(): return digitalRead(_di_pin);
diPinState ==
    /\ pc = "idle"
    /\ pc' = "done"
    /\ op' = "diPinState"
    /\ \E l \in Levels :
          /\ ret' = l
          /\ events' = Append(events, ReadEv("di", l))
    /\ UNCHANGED <<retpc, lines, address, data, data0, dataLength, mode, i,
                   bdata, bi, initialized, wire, shift, rxLog, cnt>>

\* The public method returns to the caller; its frame is gone.
Return ==
    /\ pc = "done"
    /\ pc' = "idle"
    /\ retpc' = "-"
    /\ op' = "-"
    /\ address' = 0
    /\ data' = <<>>
    /\ data0' = <<>>
    /\ dataLength' = 0
    /\ mode' = CCB_SEND
    /\ i' = 0
    /\ bdata' = 0
    /\ bi' = 0
    /\ ret' = 0
    /\ events' = <<>>
    /\ wire' = <<>>
    /\ shift' = NoShift
    /\ rxLog' = <<>>
    /\ cnt' = NoCnt
    /\ UNCHANGED <<lines, initialized>>

Next ==
    \/ init
    \/ write
    \/ read
    \/ diPinState
    \/ writeByte
    \/ readByte
    \/ ccb
    \/ Return

Spec == Init /\ [][Next]_vars

\* The driver is straight-line blocking code on one thread: once a public
\* method has been entered, each of its statements is executed in turn and
\* every delayMicroseconds returns.  Only the caller's next call is optional.
Step == init \/ writeByte \/ readByte \/ ccb

\* ---------------------------------------------- byte primitives back to back
\* writeByte(b) followed by readByte() on an initialized, idle bus whose IN
\* line replays what OUT carried, for every byte b.
InitLoopback ==
    /\ pc = "loop_send"
    /\ retpc = "-"
    /\ level = [p \in {"do", "cl", "di", "ce"} |-> IF p = "di" THEN HIGH ELSE LOW]
    /\ pinmode = [p \in {"do", "cl", "di", "ce"} |->
                     IF p = "di" THEN "INPUT" ELSE "OUTPUT"]
    /\ op = "loopback"
    /\ address \in 0 .. 255
    /\ data = <<>>
    /\ data0 = <<>>
    /\ dataLength = 0
    /\ mode = CCB_SEND
    /\ i = 0
    /\ bdata = 0
    /\ bi = 0
    /\ ret = 0
    /\ initialized = TRUE
    /\ events = <<>>
    /\ wire = <<>>
    /\ shift = NoShift
    /\ rxLog = <<>>
    /\ cnt = NoCnt

\* writeByte(b);
loopback_send ==
    /\ pc = "loop_send"
    /\ writeByte_call(address, "loop_recv")
    /\ UNCHANGED <<frame, i, ret, initialized, rxLog, lines, wire, shift>>

\* readByte();
loopback_recv ==
    /\ pc = "loop_recv"
    /\ readByte_call("done")
    /\ UNCHANGED <<frame, i, ret, initialized, rxLog, lines, wire, shift>>

NextLoopback ==
    \/ loopback_send
    \/ writeByte
    \/ loopback_recv
    \/ readByte

SpecLoopback == InitLoopback /\ [][NextLoopback]_vars

SpecFair == Init /\ [][Next]_vars /\ WF_vars(Step /\ pc # "idle")

TypeOK ==
    /\ level \in [{"do", "cl", "di", "ce"} -> Levels]
    /\ i \in -128 .. 127
    /\ bi \in -1 .. 8
    /\ bdata \in 0 .. 255
    /\ dataLength \in -128 .. 127

\* ====================================================================
\* Properties
\* ====================================================================
InTransfer == op \in {"read", "write"}

\* The length is within the documented range 0..127.
LengthInRange == dataLength \in 0 .. MaxDataLength

\* The nibble-exchanged address as the specification writes it:
\* (a >> 4) | ((a << 4) & 0xFF).
NibbleSwapped(a) == (a \div 16) + ((a * 16) % 256)

C2_ReadFillsBufferAscending ==
    (op = "read" /\ LengthInRange) =>
        /\ Len(rxLog) <= dataLength
        /\ Len(cnt.bufWrites) <= Len(rxLog)
        /\ Len(rxLog) <= Len(cnt.bufWrites) + 1
        /\ \A k \in 1 .. Len(cnt.bufWrites) :
              /\ cnt.bufWrites[k] = k - 1
              /\ data[k - 1] = rxLog[k]
        /\ pc = "done" => /\ Len(rxLog) = dataLength
                          /\ Len(cnt.bufWrites) = dataLength

C2_Witness ==
    /\ pc = "done" /\ op = "read" /\ dataLength = 2
    /\ Len(rxLog) = 2 /\ rxLog[1] # rxLog[2]
    /\ data[0] = rxLog[1] /\ data[1] = rxLog[2]
    /\ data[0] # data0[0] /\ data[1] # data0[1]

\* C3: in every read or write made after initialize(), for every address a,
\* the first byte a peripheral clocks in from OUT is a with its nibbles
\* exchanged, (a >> 4) | ((a << 4) & 0xFF), it is clocked with ENABLE low,
\* and it is the only byte of the transfer clocked with ENABLE low.
C3_AddressByteNibbleSwapped ==
    (InTransfer /\ initialized) =>
        /\ Len(wire) >= 1 =>
              /\ wire[1].val = NibbleSwapped(address)
              /\ wire[1].ce = {LOW}
        /\ \A k \in 2 .. Len(wire) : wire[k].ce # {LOW}
        /\ pc = "done" => /\ Len(wire) >= 1
                          /\ cnt.sends - Len(cnt.bufReads) = 1

C3_Witness ==
    /\ pc = "done" /\ op = "read" /\ initialized
    /\ address = 130 /\ wire[1].val = 40 /\ Len(wire) = 3

\* C4: in every transfer started after initialize(), ENABLE is LOW at each
\* of the 8 clock pulses of the address byte, HIGH at every clock pulse of
\* every payload byte, and LOW when the operation returns.
C4_EnableHighOnlyDuringPayload ==
    (InTransfer /\ initialized) =>
        /\ \A k \in 1 .. Len(wire) :
              wire[k].ce = (IF k = 1 THEN {LOW} ELSE {HIGH})
        /\ shift.ce \subseteq (IF Len(wire) = 0 THEN {LOW} ELSE {HIGH})
        /\ cnt.hiPulses = (IF cnt.pulses <= 8 THEN 0 ELSE cnt.pulses - 8)
        /\ pc = "done" => level["ce"] = LOW

C4_Witness ==
    /\ pc = "done" /\ op = "write" /\ initialized /\ dataLength = 2
    /\ wire[1].ce = {LOW} /\ wire[2].ce = {HIGH} /\ wire[3].ce = {HIGH}
    /\ level["ce"] = LOW /\ cnt.pulses = 24 /\ cnt.hiPulses = 16

\* The line events of a byte sent least significant bit first: for
\* b = 0..7, OUT := bit b, CLOCK := HIGH, delay, CLOCK := LOW, delay.
LsbFirstEvents(value) ==
    [k \in 1 .. 40 |->
        LET b == (k - 1) \div 5
            j == (k - 1) % 5
        IN  CASE j = 0 -> WriteEv("do", (value \div Pow2(b)) % 2)
              [] j = 1 -> WriteEv("cl", HIGH)
              [] j = 3 -> WriteEv("cl", LOW)
              [] OTHER -> DelayEv]

\* C5: when writeByte(value) is about to return, its line events are exactly,
\* for b = 0..7 ascending, [OUT := bit b of value, CLOCK := HIGH, delay,
\* CLOCK := LOW, delay]; after initialize() these are 8 clock pulses and the
\* byte a peripheral assembles from OUT at the rising edges, first edge =
\* bit 0, is value.
C5_SendByteLsbFirst ==
    pc = "wb_ret" =>
        /\ events = LsbFirstEvents(bdata)
        /\ initialized => /\ cnt.pulses = 8 * cnt.sends
                          /\ shift.n = 0
                          /\ Len(wire) = cnt.sends
                          /\ wire[Len(wire)].val = bdata

C5_Witness ==
    /\ pc = "wb_ret" /\ bdata = 187 /\ initialized /\ op = "write"
    /\ Len(events) = 40 /\ events[1] = WriteEv("do", HIGH)
    /\ events[11] = WriteEv("do", LOW) /\ events[36] = WriteEv("do", HIGH)
    /\ wire[Len(wire)].val = 187

\* The level readByte sampled at its k-th clock pulse, k = 0..7.
SampledLevel(k) == events[5 * k + 3].v

\* C6: when readByte() is about to return, its line events are 8 repetitions
\* of [CLOCK := HIGH, delay, sample IN, CLOCK := LOW, delay], and the level
\* sampled at the k-th pulse (k = 0..7) is bit 7-k of the byte it returns.
C6_ReceiveByteMsbFirst ==
    pc = "rb_ret" =>
        /\ Len(events) = 40
        /\ \A k \in 0 .. 7 :
              /\ events[5 * k + 1] = WriteEv("cl", HIGH)
              /\ events[5 * k + 2] = DelayEv
              /\ events[5 * k + 3].e = "digitalRead"
              /\ events[5 * k + 3].pin = "di"
              /\ events[5 * k + 4] = WriteEv("cl", LOW)
              /\ events[5 * k + 5] = DelayEv
              /\ (bdata \div Pow2(7 - k)) % 2 = SampledLevel(k)
        /\ bdata = 128 * SampledLevel(0) + 64 * SampledLevel(1)
                   + 32 * SampledLevel(2) + 16 * SampledLevel(3)
                   + 8 * SampledLevel(4) + 4 * SampledLevel(5)
                   + 2 * SampledLevel(6) + SampledLevel(7)
        /\ initialized => cnt.pulses = 8 * (cnt.sends + cnt.recvs)

C6_Witness ==
    /\ pc = "rb_ret" /\ Len(events) = 40
    /\ SampledLevel(0) = HIGH /\ SampledLevel(1) = LOW
    /\ SampledLevel(2) = HIGH /\ SampledLevel(3) = LOW
    /\ SampledLevel(4) = LOW /\ SampledLevel(5) = HIGH
    /\ SampledLevel(6) = HIGH /\ SampledLevel(7) = LOW
    /\ bdata = 166

\* C7: once initialize() has run, CLOCK is LOW whenever an operation starts
\* and whenever it returns.
C7_ClockRestsLow ==
    (initialized /\ pc \in {"idle", "init_mode_do", "ccb_address", "done"}) =>
        level["cl"] = LOW

C7_Witness ==
    /\ initialized /\ pc = "done" /\ op = "read" /\ dataLength = 1
    /\ cnt.pulses = 16 /\ level["cl"] = LOW

\* The line events of init().
InitEvents ==
    << PinModeEv("do", "OUTPUT"), PinModeEv("cl", "OUTPUT"),
       PinModeEv("ce", "OUTPUT"), PinModeEv("di", "INPUT"),
       WriteEv("di", HIGH), WriteEv("do", LOW), WriteEv("cl", LOW),
       WriteEv("ce", HIGH), DelayEv, WriteEv("ce", LOW), DelayEv >>

\* C8: when initialize() returns it has configured OUT, CLOCK and ENABLE as
\* outputs and IN as a pulled-high input, driven OUT and CLOCK LOW, and only
\* then written ENABLE HIGH, delayed, written ENABLE LOW, delayed, each
\* once; OUT, CLOCK and ENABLE are LOW.
C8_InitializeSequence ==
    (pc = "done" /\ op = "init") =>
        /\ events = InitEvents
        /\ pinmode = [p \in {"do", "cl", "di", "ce"} |->
                         IF p = "di" THEN "INPUT" ELSE "OUTPUT"]
        /\ level = [p \in {"do", "cl", "di", "ce"} |->
                         IF p = "di" THEN HIGH ELSE LOW]
        /\ cnt.ceFalls = 1
        /\ cnt.ceRises <= 1
        /\ cnt.pulses = 0
        /\ initialized

C8_Witness ==
    /\ pc = "done" /\ op = "init" /\ Len(events) = 11
    /\ cnt.ceRises = 1 /\ cnt.ceFalls = 1 /\ level["ce"] = LOW

\* C9: a read or write of length 0 calls writeByte once (the address) and
\* readByte never, and touches no buffer element; after initialize() it
\* makes 8 clock pulses, all with ENABLE low and carrying the nibble-swapped
\* address, and one ENABLE rise followed by one fall.
C9_ZeroLengthTransfer ==
    (InTransfer /\ dataLength = 0) =>
        /\ cnt.recvs = 0
        /\ cnt.sends <= 1
        /\ rxLog = <<>>
        /\ cnt.bufReads = <<>>
        /\ cnt.bufWrites = <<>>
        /\ data = data0
        /\ pc = "done" => cnt.sends = 1
        /\ initialized =>
              /\ cnt.hiPulses = 0
              /\ cnt.ceFalls <= cnt.ceRises
              /\ pc = "done" =>
                    /\ cnt.pulses = 8
                    /\ wire = << [val |-> NibbleSwapped(address), ce |-> {LOW}] >>
                    /\ cnt.ceRises = 1
                    /\ cnt.ceFalls = 1

C9_Witness ==
    /\ pc = "done" /\ op = "read" /\ dataLength = 0 /\ initialized
    /\ address = 18 /\ cnt.pulses = 8 /\ cnt.ceRises = 1 /\ cnt.ceFalls = 1
    /\ wire[1].val = 33

\* C10: a read or write of length 127 completes having transferred exactly
\* 127 payload bytes, and for every length in 0..127 the int8_t counter i
\* stays within -1..127 and no assignment to it wraps.
C10_MaxLengthNoOverflow ==
    (InTransfer /\ LengthInRange) =>
        /\ ~cnt.overflow
        /\ i \in -1 .. MaxDataLength
        /\ cnt.iMin >= -1
        /\ cnt.iMax <= MaxDataLength
        /\ (pc = "done" /\ dataLength = MaxDataLength /\ op = "write") =>
              /\ Len(cnt.bufReads) = MaxDataLength
              /\ cnt.sends = MaxDataLength + 1
              /\ i = -1
              /\ initialized => /\ Len(wire) = MaxDataLength + 1
                                /\ cnt.hiPulses = 8 * MaxDataLength
        /\ (pc = "done" /\ dataLength = MaxDataLength /\ op = "read") =>
              /\ Len(rxLog) = MaxDataLength
              /\ Len(cnt.bufWrites) = MaxDataLength
              /\ cnt.recvs = MaxDataLength
              /\ i = MaxDataLength
              /\ initialized => cnt.hiPulses = 8 * MaxDataLength

C10_Witness ==
    /\ pc = "done" /\ op = "read" /\ dataLength = MaxDataLength
    /\ i = MaxDataLength /\ cnt.iMax = MaxDataLength
    /\ Len(rxLog) = MaxDataLength /\ ~cnt.overflow

\* C12: queryInputLineState() is one sample of IN and nothing else: it
\* returns the level it sampled, writes no line and no pin mode, calls no
\* delay, produces no clock or ENABLE edge and touches no buffer, so the
\* lines a later transfer starts from are the ones it found.
C12_QueryInputLineStateFrame ==
    [][(pc = "idle" /\ op' = "diPinState") =>
          /\ pc' = "done"
          /\ ret' \in Levels
          /\ events' = Append(events, ReadEv("di", ret'))
          /\ level' = level
          /\ pinmode' = pinmode
          /\ data' = data
          /\ cnt' = cnt
          /\ wire' = wire
          /\ shift' = shift
          /\ initialized' = initialized]_vars

C12_Witness ==
    /\ pc = "done" /\ op = "diPinState" /\ initialized
    /\ ret = HIGH /\ events = << ReadEv("di", HIGH) >>
    /\ level["cl"] = LOW /\ cnt.pulses = 0

\* C11: every read or write, once entered, reaches its return, for every
\* address, direction and length; it returns only with ENABLE lowered, and
\* for a length n in 0..127 after initialize() it has then made exactly
\* 8 * (n + 1) clock pulses and never more on the way.
C11_TransferRunsToCompletion ==
    /\ (InTransfer /\ pc # "done") ~> (InTransfer /\ pc = "done")
    /\ [](InTransfer =>
            /\ pc = "done" => (level["ce"] = LOW /\ level["cl"] = LOW)
            /\ (initialized /\ LengthInRange) =>
                  /\ cnt.pulses <= 8 * (dataLength + 1)
                  /\ pc = "done" =>
                        /\ cnt.pulses = 8 * (dataLength + 1)
                        /\ cnt.ceFalls = 1)

C11_Witness ==
    /\ pc = "done" /\ op = "write" /\ initialized
    /\ dataLength = MaxDataLength /\ cnt.pulses = 1024
    /\ level["ce"] = LOW /\ cnt.ceFalls = 1

\* The byte b with its 8 bits in the opposite order.
BitReversed(b) ==
    128 * (b % 2) + 64 * ((b \div 2) % 2) + 32 * ((b \div 4) % 2)
    + 16 * ((b \div 8) % 2) + 8 * ((b \div 16) % 2) + 4 * ((b \div 32) % 2)
    + 2 * ((b \div 64) % 2) + ((b \div 128) % 2)

BitPalindromic(b) == \A k \in 0 .. 3 : (b \div Pow2(k)) % 2 = (b \div Pow2(7 - k)) % 2

\* C13: for every byte b, the 8 OUT levels at the rising clock edges of
\* writeByte(b), assembled with the first edge as bit 0, give b; the same 8
\* levels presented in the same time order on IN to readByte() give the
\* bit reversal of b, which is b only when b is bit-palindromic.
C13_SendReceiveBitOrderAsymmetric ==
    op = "loopback" =>
        /\ Len(wire) >= 1 => wire[1].val = address
        /\ pc = "rb_ret" =>
              \A k \in 0 .. 7 : SampledLevel(k) = (address \div Pow2(k)) % 2
        /\ pc = "done" =>
              /\ Len(wire) = 2
              /\ ret = BitReversed(address)
              /\ ret = address <=> BitPalindromic(address)

C13_Witness ==
    /\ op = "loopback" /\ pc = "done" /\ address = 11
    /\ wire[1].val = 11 /\ ret = 208

\* C14: after initialize(), every completed read or write returns with the
\* bus at the idle levels initialize() establishes: OUT LOW, CLOCK LOW and
\* ENABLE LOW, whatever the direction, address, length and payload.
C14_TransferReturnsBusToIdle ==
    (InTransfer /\ initialized /\ pc = "done") =>
        /\ level["do"] = LOW
        /\ level["cl"] = LOW
        /\ level["ce"] = LOW

\* The last n line events logged.
LastEvents(n) == SubSeq(events, Len(events) - n + 1, Len(events))

\* C15: in a transfer made after initialize(), ENABLE rises once and falls
\* once, in that order.  The rise comes after the falling edge of the 8th
\* address pulse and is followed by one delay before any payload pulse;
\* the fall comes after the last payload pulse (for a write, after OUT has
\* been driven LOW) and is followed by one delay before the return.
C15_PhaseOrder ==
    (InTransfer /\ initialized) =>
        /\ cnt.ceRises <= 1
        /\ cnt.ceFalls <= cnt.ceRises
        /\ (cnt.pulses < 8 \/ level["cl"] = HIGH) => level["ce"] = (IF cnt.pulses <= 8 THEN LOW ELSE HIGH)
        /\ cnt.pulses < 8 => cnt.ceRises = 0
        /\ cnt.pulses > 8 => cnt.ceRises = 1
        /\ pc = "ccb_enter_delay" =>
              /\ cnt.ceRises = 1 /\ cnt.pulses = 8 /\ level["cl"] = LOW
              /\ LastEvents(1) = << WriteEv("ce", HIGH) >>
        /\ pc = "ccb_switch" =>
              /\ cnt.pulses = 8
              /\ LastEvents(2) = << WriteEv("ce", HIGH), DelayEv >>
        /\ cnt.ceFalls = 1 =>
              /\ pc \in {"ccb_exit_delay", "done"}
              /\ level["cl"] = LOW
              /\ cnt.pulses = 8 * (cnt.sends + cnt.recvs)
              /\ op = "write" => level["do"] = LOW
        /\ pc = "ccb_exit_delay" =>
              /\ LastEvents(1) = << WriteEv("ce", LOW) >>
              /\ op = "write" => LastEvents(2)[1] = WriteEv("do", LOW)
        /\ pc = "done" =>
              /\ cnt.ceRises = 1 /\ cnt.ceFalls = 1
              /\ LastEvents(2) = << WriteEv("ce", LOW), DelayEv >>

C15_Witness ==
    /\ pc = "done" /\ op = "write" /\ initialized /\ dataLength = 1
    /\ cnt.ceRises = 1 /\ cnt.ceFalls = 1 /\ cnt.pulses = 16
    /\ LastEvents(3) = << WriteEv("do", LOW), WriteEv("ce", LOW), DelayEv >>

\* What an empty payload looks like: the address byte is the only byte sent,
\* nothing is received, no buffer element is accessed, and after
\* initialize() the transfer is 8 clock pulses around one ENABLE pulse.
EmptyPayload ==
    /\ cnt.sends <= 1
    /\ cnt.recvs = 0
    /\ rxLog = <<>>
    /\ cnt.bufReads = <<>>
    /\ cnt.bufWrites = <<>>
    /\ data = data0
    /\ initialized => cnt.hiPulses = 0
    /\ pc = "done" =>
          /\ cnt.sends = 1
          /\ initialized => (cnt.pulses = 8 /\ cnt.ceRises = 1 /\ cnt.ceFalls = 1)

\* C16 as stated: a read or write entered with any negative int8_t length
\* (-128..-1) performs the address phase and the ENABLE pulse but transfers
\* no payload byte and accesses no buffer element.
C16_NegativeLengthEmpty ==
    (InTransfer /\ dataLength < 0) => EmptyPayload

\* C16 amended: a read entered with a length in -128..-1, or a write entered
\* with a length in -127..-1, transfers no payload byte and accesses no
\* buffer element.  A write entered with -128 is not empty: the counter's
\* initial value dataLength - 1 = -129 wraps to 127, and the transfer sends
\* the 128 bytes buffer[127], ..., buffer[0].
C16_NegativeLengthEmptyExceptWriteMin ==
    (InTransfer /\ dataLength < 0) =>
        /\ ~(op = "write" /\ dataLength = -128) => EmptyPayload
        /\ (op = "write" /\ dataLength = -128) =>
              /\ pc \notin {"ccb_address", "ccb_cl_low", "ccb_ce_high",
                            "ccb_enter_delay", "ccb_switch", "wb_do",
                            "wb_cl_high", "wb_delay_high", "wb_cl_low",
                            "wb_delay_low", "wb_ret"}
                   => cnt.overflow
              /\ \A k \in 1 .. Len(cnt.bufReads) : cnt.bufReads[k] = 128 - k
              /\ pc = "done" => (Len(cnt.bufReads) = 128 /\ cnt.sends = 129)

C16_Witness ==
    /\ pc = "done" /\ op = "read" /\ dataLength = -128 /\ initialized
    /\ cnt.pulses = 8 /\ cnt.recvs = 0 /\ cnt.ceRises = 1 /\ data = data0

\* C17: for a length n in 0..127, a write only reads the buffer, at indices
\* within 0..n-1, and leaves every element as it was; a read only writes
\* the buffer, at indices within 0..n-1, never reads it, and leaves every
\* element at an index >= n as it was.
C17_BufferBorrowedInDirection ==
    (InTransfer /\ LengthInRange) =>
        /\ DOMAIN data = DOMAIN data0
        /\ op = "write" =>
              /\ data = data0
              /\ cnt.bufWrites = <<>>
              /\ \A k \in 1 .. Len(cnt.bufReads) :
                    cnt.bufReads[k] \in 0 .. dataLength - 1
        /\ op = "read" =>
              /\ cnt.bufReads = <<>>
              /\ \A k \in 1 .. Len(cnt.bufWrites) :
                    cnt.bufWrites[k] \in 0 .. dataLength - 1
              /\ \A j \in DOMAIN data :
                    (j >= dataLength \/ j >= Len(cnt.bufWrites)) => data[j] = data0[j]

C17_Witness ==
    /\ pc = "done" /\ op = "read" /\ dataLength = 2
    /\ data[0] # data0[0] /\ data[1] # data0[1] /\ data[2] = data0[2]
    /\ cnt.bufWrites = << 0, 1 >>

\* This step is a digitalWrite to pin p.
Written(p) ==
    /\ Len(events') = Len(events) + 1
    /\ events'[Len(events')].e = "digitalWrite"
    /\ events'[Len(events')].pin = p

\* C18: once initialize() has completed, every write of the OUT level, in
\* init, read or write, is made while CLOCK is LOW: none falls between a
\* CLOCK rising edge and the following falling edge.
C18_OutStableWhileClockHigh ==
    [][(initialized /\ Written("do")) => level["cl"] = LOW]_vars

C18_Witness ==
    /\ initialized /\ pc = "wb_cl_high" /\ op = "write" /\ bi = 7
    /\ LastEvents(1) = << WriteEv("do", HIGH) >>
    /\ level["cl"] = LOW /\ level["ce"] = HIGH

\* In the events logged so far, the last CLOCK := HIGH (if any) has been
\* followed by CLOCK := LOW and then by a delay.
ClockFallSettled ==
    LET highs == {k \in 1 .. Len(events) : events[k] = WriteEv("cl", HIGH)}
    IN  highs # {} =>
            LET h == CHOOSE k \in highs : \A m \in highs : m <= k
            IN  \E f \in h + 1 .. Len(events) :
                    /\ events[f] = WriteEv("cl", LOW)
                    /\ \E d \in f + 1 .. Len(events) : events[d] = DelayEv

\* C19: once initialize() has completed, every change of ENABLE, in init,
\* read or write, is made while CLOCK is LOW and after a delay has followed
\* the last CLOCK falling edge (every operation that clocks also ends with
\* a delay), and when ENABLE falls the number of clock pulses made since it
\* rose is a multiple of 8.
C19_EnableChangesBetweenBytes ==
    /\ [][(initialized /\ level'["ce"] # level["ce"]) =>
             /\ level["cl"] = LOW
             /\ ClockFallSettled
             /\ cnt.pulses % 8 = 0
             /\ level'["ce"] = LOW => cnt.hiPulses % 8 = 0]_vars
    /\ []((initialized /\ pc = "done" /\ op # "diPinState") =>
             (level["cl"] = LOW /\ LastEvents(1) = << DelayEv >>))

C19_Witness ==
    /\ initialized /\ pc = "ccb_exit_delay" /\ op = "read"
    /\ level["ce"] = LOW /\ level["cl"] = LOW
    /\ cnt.ceRises = 1 /\ cnt.ceFalls = 1 /\ cnt.hiPulses = 16

====
